---- MODULE Spec2Model ----
(***************************************************************************)
(* A model of the VaryVelocity VST plugin (src/src/lib.rs): the parameter  *)
(* store (two AtomicFloat cells), the velocity randomizer add_event, and   *)
(* the cycle controller process_events / process / send_midi.              *)
(*                                                                         *)
(* f32 values are modelled exactly as IEEE-754 binary32 numbers: a finite  *)
(* value is m * 2^e with m an odd integer of at most 24 bits (m = 0, e = 0 *)
(* for zero), plus the two infinities and NaN.  Arithmetic rounds to       *)
(* nearest, ties to even, overflows to infinity and underflows through the *)
(* subnormal range, as the hardware does.  The sign of zero is not kept.   *)
(***************************************************************************)
EXTENDS Integers, Sequences, FiniteSets, TLC

(***************************************************************************)
(* binary32 arithmetic                                                     *)
(***************************************************************************)

Fin(m, e) == [k |-> "fin", m |-> m, e |-> e]
NaN == [k |-> "nan", m |-> 0, e |-> 0]
PosInf == [k |-> "inf", m |-> 1, e |-> 0]
NegInf == [k |-> "inf", m |-> -1, e |-> 0]
Zero == Fin(0, 0)

Abs(n) == IF n < 0 THEN -n ELSE n
Sgn(n) == IF n < 0 THEN -1 ELSE IF n = 0 THEN 0 ELSE 1
MaxI(a, b) == IF a >= b THEN a ELSE b
MinI(a, b) == IF a <= b THEN a ELSE b

RECURSIVE BitLen(_)
\* number of bits of the natural n
BitLen(n) == IF n = 0 THEN 0 ELSE 1 + BitLen(n \div 2)

RECURSIVE Norm(_, _)
\* the canonical form of m * 2^e: odd m, or zero
Norm(m, e) ==
    IF m = 0 THEN Zero
    ELSE IF m % 2 = 0 THEN Norm(m \div 2, e + 1)
    ELSE Fin(m, e)

IsNaN(x) == x.k = "nan"
IsInf(x) == x.k = "inf"
IsFinite(x) == x.k = "fin"

\* position of the bit above the leading bit: 2^(Top-1) <= |x| < 2^Top
Top(x) == x.e + BitLen(Abs(x.m))

\* mag * 2^e (mag >= 0, below 2^31; sticky: nonzero bits were already dropped
\* below it) rounded to the nearest binary32, ties to even, with sign sg.
\* The significand has 24 bits, the least subnormal is 2^-149 and every
\* finite value is below 2^128.
Round(sg, mag, e, sticky) ==
    LET shift == MaxI(BitLen(mag) - 24, -149 - e)
    IN  IF mag = 0 THEN Zero
        ELSE IF shift <= 0 THEN
            IF BitLen(mag) + e > 128
            THEN (IF sg < 0 THEN NegInf ELSE PosInf)
            ELSE Norm(sg * mag, e)
        ELSE IF shift > 31 THEN Zero
        ELSE
            LET half == 2^(shift - 1)
                q == (mag \div half) \div 2
                r == mag - q * half * 2
                up == \/ r > half
                      \/ r = half /\ sticky
                      \/ r = half /\ q % 2 = 1
                qq == IF up THEN q + 1 ELSE q
            IN  IF BitLen(qq) + e + shift > 128
                THEN (IF sg < 0 THEN NegInf ELSE PosInf)
                ELSE Norm(sg * qq, e + shift)

\* a * b in binary32; one of the finite operands has a significand of at most
\* 7 bits (the constants 25. and 127., and the modelled normal draws)
fmul(a, b) ==
    IF IsNaN(a) \/ IsNaN(b) THEN NaN
    ELSE IF IsInf(a) \/ IsInf(b) THEN
        IF a.m = 0 \/ b.m = 0 THEN NaN
        ELSE IF Sgn(a.m) * Sgn(b.m) < 0 THEN NegInf ELSE PosInf
    ELSE Round(Sgn(a.m) * Sgn(b.m), Abs(a.m) * Abs(b.m), a.e + b.e, FALSE)

\* a < b on finite values
FinLt(a, b) ==
    IF Sgn(a.m) # Sgn(b.m) THEN Sgn(a.m) < Sgn(b.m)
    ELSE IF a.m = 0 THEN FALSE
    ELSE
        LET magLt(x, y) ==
                IF Top(x) # Top(y) THEN Top(x) < Top(y)
                ELSE LET lo == MinI(x.e, y.e)
                     IN  Abs(x.m) * 2^(x.e - lo) < Abs(y.m) * 2^(y.e - lo)
        IN  IF a.m > 0 THEN magLt(a, b) ELSE magLt(b, a)

\* the f32 comparison a < b (false when either is NaN)
flt(a, b) ==
    IF IsNaN(a) \/ IsNaN(b) THEN FALSE
    ELSE IF IsInf(a) THEN a.m < 0 /\ ~(IsInf(b) /\ b.m < 0)
    ELSE IF IsInf(b) THEN b.m > 0
    ELSE FinLt(a, b)

\* the f32 comparison a <= b (false when either is NaN)
fle(a, b) == ~IsNaN(a) /\ ~IsNaN(b) /\ (a = b \/ flt(a, b))

\* f32::max: the larger operand; a NaN operand is ignored
fmax(a, b) ==
    IF IsNaN(a) THEN b
    ELSE IF IsNaN(b) THEN a
    ELSE IF flt(a, b) THEN b ELSE a

\* f32::min: the smaller operand; a NaN operand is ignored
fmin(a, b) ==
    IF IsNaN(a) THEN b
    ELSE IF IsNaN(b) THEN a
    ELSE IF flt(b, a) THEN b ELSE a

\* a + b in binary32
fadd(a, b) ==
    IF IsNaN(a) \/ IsNaN(b) THEN NaN
    ELSE IF IsInf(a) THEN (IF IsInf(b) /\ b.m # a.m THEN NaN ELSE a)
    ELSE IF IsInf(b) THEN b
    ELSE IF a.m = 0 THEN b
    ELSE IF b.m = 0 THEN a
    ELSE
        LET big == IF Top(a) >= Top(b) THEN a ELSE b
            sml == IF Top(a) >= Top(b) THEN b ELSE a
            \* unit of the working grid: 2^q, three bits (guard, round and a
            \* spare) below the last of the 24 bits of big
            q == Top(big) - 27
            bm == big.m * 2^(big.e - q)
            down == q - sml.e
        IN  IF Top(big) - Top(sml) > 26 THEN big
            ELSE IF down <= 0 THEN
                LET s == bm + sml.m * 2^(sml.e - q)
                IN  Round(Sgn(s), Abs(s), q, FALSE)
            ELSE
                \* the low bits of sml fall below the grid: the magnitude is
                \* floored to the grid and the dropped bits are kept as sticky
                LET p == 2^down
                    sq == Abs(sml.m) \div p
                    lost == Abs(sml.m) % p # 0
                    mag == IF Sgn(big.m) = Sgn(sml.m) THEN Abs(bm) + sq
                           ELSE IF lost THEN Abs(bm) - sq - 1 ELSE Abs(bm) - sq
                IN  Round(Sgn(big.m), mag, q, lost)

\* u8 as f32
from_u8(n) == Norm(n, 0)

\* f32 as u8: truncation toward zero, saturating at 0 and 255, NaN to 0
as_u8(x) ==
    IF IsNaN(x) THEN 0
    ELSE IF IsInf(x) THEN (IF x.m < 0 THEN 0 ELSE 255)
    ELSE IF x.m <= 0 THEN 0
    ELSE IF Top(x) > 8 THEN 255
    ELSE IF x.e >= 0 THEN x.m * 2^(x.e)
    ELSE IF -x.e > 30 THEN 0
    ELSE x.m \div 2^(-x.e)

(***************************************************************************)
(* Decimal formatting of binary32 values (core::fmt for f32).  A String is *)
(* modelled as the sequence of its characters; a natural number of any     *)
(* size as the sequence of its decimal digits, most significant first.     *)
(***************************************************************************)

DigitChars == <<"0", "1", "2", "3", "4", "5", "6", "7", "8", "9">>

RECURSIVE MulDigits(_, _, _)
\* the digits of ds * c + carry, for a factor c of at most 5^8, three digits
\* at a time
MulDigits(ds, c, carry) ==
    IF carry = 0 /\ ds = <<>> THEN <<>>
    ELSE IF ds = <<>>
    THEN Append(MulDigits(<<>>, c, carry \div 10), carry % 10)
    ELSE IF Len(ds) >= 3
    THEN LET n == Len(ds)
             t == (ds[n - 2] * 100 + ds[n - 1] * 10 + ds[n]) * c + carry
         IN  MulDigits(SubSeq(ds, 1, n - 3), c, t \div 1000)
             \o <<(t \div 100) % 10, (t \div 10) % 10, t % 10>>
    ELSE LET t == ds[Len(ds)] * c + carry
         IN  Append(MulDigits(SubSeq(ds, 1, Len(ds) - 1), c, t \div 10), t % 10)

RECURSIVE MulPow(_, _, _)
\* the digits of ds * c^k, for c at most 5, eight factors at a time (the
\* test of Len(ds) has ds evaluated before the next product is begun)
MulPow(ds, c, k) ==
    IF k = 0 \/ Len(ds) < 0 THEN ds
    ELSE IF k >= 8 THEN MulPow(MulDigits(ds, c^8, 0), c, k - 8)
    ELSE MulPow(MulDigits(ds, c, 0), c, k - 1)

Zeros(n) == [i \in 1..n |-> 0]
PadLeft(ds, n) == Zeros(n - Len(ds)) \o ds
AllZero(ds) == \A i \in 1..Len(ds) : ds[i] = 0

\* the digits of ds + 1, in as many places (ds is not all nines)
IncDigits(ds) ==
    LET j == CHOOSE i \in 1..Len(ds) :
                 ds[i] < 9 /\ \A h \in (i + 1)..Len(ds) : ds[h] = 9
    IN  [i \in 1..Len(ds) |->
            IF i < j THEN ds[i] ELSE IF i = j THEN ds[i] + 1 ELSE 0]

\* a < b for digit sequences of one length
LtDigits(a, b) ==
    \E i \in 1..Len(a) : a[i] < b[i] /\ \A h \in 1..(i - 1) : a[h] = b[h]

\* without leading zeros, but never empty
StripLeading(ds) ==
    IF AllZero(ds) THEN <<0>>
    ELSE SubSeq(ds, CHOOSE i \in 1..Len(ds) :
                       ds[i] # 0 /\ \A h \in 1..(i - 1) : ds[h] = 0, Len(ds))

\* without trailing zeros
StripTrailing(ds) ==
    IF AllZero(ds) THEN <<>>
    ELSE SubSeq(ds, 1, CHOOSE i \in 1..Len(ds) :
                          ds[i] # 0 /\ \A h \in (i + 1)..Len(ds) : ds[h] = 0)

Chars(ds) == [i \in 1..Len(ds) |-> DigitChars[ds[i] + 1]]

\* the exact decimal expansion of n * 2^g (n >= 0): the digits ds of an
\* integer and the number p of them that follow the decimal point
Decimal(n, g) ==
    IF g >= 0 THEN [ds |-> MulPow(MulDigits(<<>>, 1, n), 2, g), p |-> 0]
    ELSE [ds |-> MulPow(MulDigits(<<>>, 1, n), 5, -g), p |-> -g]

\* the String of the digits ds of which the last p follow the point; the
\* fraction is cut to its last nonzero digit, but keeps at least min digits
DecimalString(neg, ds, p, min) ==
    LET all == PadLeft(ds, MaxI(Len(ds), p + 1))
        int == StripLeading(SubSeq(all, 1, Len(all) - p))
        fr == StripTrailing(SubSeq(all, Len(all) - p + 1, Len(all)))
        frac == fr \o Zeros(min - Len(fr))
    IN  (IF neg THEN <<"-">> ELSE <<>>) \o Chars(int)
        \o (IF frac = <<>> THEN <<>> ELSE <<".">> \o Chars(frac))

NonFiniteString(x) ==
    IF IsNaN(x) THEN <<"N", "a", "N">>
    ELSE IF x.m < 0 THEN <<"-", "i", "n", "f">> ELSE <<"i", "n", "f">>

\* format!("{:.1}", x): the exact value rounded to one digit after the point,
\* a tie going to the even digit
fmt_fixed1(x) ==
    IF ~IsFinite(x) THEN NonFiniteString(x)
    ELSE
        LET d == Decimal(Abs(x.m), x.e)
            all == PadLeft(d.ds, MaxI(Len(d.ds), d.p) + 1)
            k == Len(all) - d.p + 1
            kept == SubSeq(all, 1, k)
            rest == SubSeq(all, k + 1, Len(all))
            up == /\ rest # <<>>
                  /\ \/ rest[1] > 5
                     \/ rest[1] = 5 /\ ~AllZero(Tail(rest))
                     \/ rest[1] = 5 /\ AllZero(Tail(rest)) /\ kept[k] % 2 = 1
        IN  IF d.p <= 1 THEN DecimalString(x.m < 0, d.ds, d.p, 1)
            ELSE DecimalString(x.m < 0, IF up THEN IncDigits(kept) ELSE kept,
                               1, 1)

RECURSIVE ShortestFrom(_, _, _, _, _)
\* the least k from which the first k digits of v, followed by zeros (down)
\* or increased by one in the k-th place (up), lie between lo and hi (the
\* ends themselves count when incl), and the nearer of the two to v
ShortestFrom(k, v, lo, hi, incl) ==
    LET n == Len(v)
        pre == SubSeq(v, 1, k)
        t == pre \o Zeros(n - k)
        u == IncDigits(pre) \o Zeros(n - k)
        down == LtDigits(lo, t) \/ (incl /\ lo = t)
        up == LtDigits(u, hi) \/ (incl /\ u = hi)
    IN  IF ~down /\ ~up THEN ShortestFrom(k + 1, v, lo, hi, incl)
        ELSE IF up /\ (~down \/ (k < n /\ v[k + 1] >= 5)) THEN u
        ELSE t

\* format!("{}", x): the shortest decimal that reads back as x, which is the
\* shortest one between the midpoints to the two neighbours of x
fmt_display(x) ==
    IF ~IsFinite(x) THEN NonFiniteString(x)
    ELSE IF x.m = 0 THEN <<"0">>
    ELSE
        LET \* the last place of x as an f32: 2^ulp
            ulp == MaxI(Top(x) - 24, -149)
            \* everything in quarters of that
            g == ulp - 2
            n == Abs(x.m) * 2^(x.e - g)
            \* below a power of two the neighbour is half as far
            below == IF Abs(x.m) = 1 /\ ulp > -149 THEN 1 ELSE 2
            \* the midpoints read back as x when the significand of x is even
            incl == (n \div 4) % 2 = 0
            dv == Decimal(n, g)
            len == Len(Decimal(n + 2, g).ds) + 1
            hi == PadLeft(Decimal(n + 2, g).ds, len)
            \* nothing shorter than the leading zeros of hi lies below it
            first == CHOOSE i \in 1..len :
                         hi[i] # 0 /\ \A h \in 1..(i - 1) : hi[h] = 0
            s == ShortestFrom(first - 1, PadLeft(dv.ds, len),
                              PadLeft(Decimal(n - below, g).ds, len), hi, incl)
        IN  DecimalString(x.m < 0, s, dv.p, 0)

(***************************************************************************)
(* Program constants and data                                              *)
(***************************************************************************)

\* static MAX_VARIANCE: f32 = 25.
MAX_VARIANCE == Fin(25, 0)
\* static MAX_MINIMUM: f32 = 127.
MAX_MINIMUM == Fin(127, 0)
\* the f32 literal 0.0000000001 of set_parameter: 14411519 * 2^-57
EPSILON == Fin(14411519, -57)
\* the f32 literal 127. of add_event
VELOCITY_MAX == Fin(127, 0)

Half == Fin(1, -1)
One == Fin(1, 0)
NegOne == Fin(-1, 0)

\* vst::event::MidiEvent
MidiEvent(status, d1, d2, delta) ==
    [data |-> <<status, d1, d2>>, delta_frames |-> delta, live |-> FALSE,
     note_length |-> "None", note_offset |-> "None", detune |-> 0,
     note_off_velocity |-> 0]

\* vst::event::Event, the variants a host delivers
Midi(ev) == [type |-> "Midi", ev |-> ev]
SysEx == [type |-> "SysEx"]

\* status bytes 0x80..0x9F: note off and note on, on any channel
IsNoteStatus(b) == b \div 32 = 4
IsNote(e) == e.type = "Midi" /\ IsNoteStatus(e.ev.data[1])

(***************************************************************************)
(* Bounds of the model                                                     *)
(***************************************************************************)

\* most events in one batch given to process_events
MaxBatch == 2
\* most events received between two flushes
MaxPending == 2
\* frames in an audio buffer
MaxFrames == 2

\* values the host passes to set_parameter: -1, 0, 0.5, +infinity
ParamVals == {NegOne, Zero, Half, PosInf}
\* parameter indices the host uses: the two slots, an unknown and a negative one
Indices == {-1, 0, 1, 5}
\* inbound events: note on, control change, system exclusive
InEvents == {Midi(MidiEvent(144, 60, 64, 0)), Midi(MidiEvent(176, 7, 127, 1)),
             SysEx}
\* values of the standard normal variate drawn by one sample: -3 and 2
ZDraws == {Fin(-3, 0), Fin(1, 1)}
\* sample rates the host announces: 44100
Rates == {Fin(11025, 2)}
\* what an output buffer holds before process writes it
Stale == Fin(7, 0)
\* the input sample of channel c at frame i: all different, none Stale
InSample(c, i) == Fin(1, c + 2 * i)

RECURSIVE SeqsUpTo(_, _)
\* the sequences over S of length at most n
SeqsUpTo(S, n) ==
    IF n = 0 THEN {<<>>}
    ELSE LET shorter == SeqsUpTo(S, n - 1)
         IN  shorter \cup {Append(q, x) : q \in shorter, x \in S}

(***************************************************************************)
(* State                                                                   *)
(***************************************************************************)

VARIABLES
    variance,          \* params.variance: AtomicFloat
    minimum,           \* params.minimum: AtomicFloat
    sample_rate,       \* VaryVelocity.sample_rate
    immediate_events,  \* VaryVelocity.immediate_events: Vec<MidiEvent>
    crashed,           \* add_event panicked: the instance is gone
    host_events,       \* host: the batches send_events gave it in the latest call
    outputs,           \* host: the output channels after the latest process
    inbound,           \* history: the events received since the last flush
    flushed,           \* history: the events received in the cycle just flushed
    var_written,       \* history: the value of the latest set_parameter(0, _)
    trace,             \* history: what the latest call did, in order
    pc,                \* audio thread: where it stands inside add_event
    cur,               \* audio thread: the event add_event was called with
    got_variance,      \* audio thread: what self.params.variance.get() returned
    got_minimum,       \* audio thread: what self.params.minimum.get() returned
    held,              \* history: the pairs the store has held during add_event
    ui_writes          \* history: set_parameter calls during this add_event

\* the variables that only the interleaved specification moves
cvars == <<pc, cur, got_variance, got_minimum, held, ui_writes>>

vars == <<variance, minimum, sample_rate, immediate_events, crashed,
          host_events, outputs, inbound, flushed, var_written, trace, cvars>>

\* no set_parameter(0, _) yet
Unwritten == [k |-> "none", m |-> 0, e |-> 0]

(***************************************************************************)
(* The parameter store: impl PluginParameters for VaryVelocityParameters   *)
(***************************************************************************)

\* get_parameter whose fallback arm reads the minimum cell
get_parameter_unknown_reads_minimum(index) ==
    CASE index = 0 -> variance
      [] index = 1 -> minimum
      [] OTHER -> minimum

get_parameter(index) ==
    CASE index = 0 -> variance
      [] index = 1 -> minimum
      [] OTHER -> Zero

\* set_parameter clamping the minimum at the epsilon as well
set_parameter_clamps_both(index, val) ==
    CASE index = 0 -> [variance |-> fmax(val, EPSILON), minimum |-> minimum]
      [] index = 1 -> [variance |-> variance, minimum |-> fmax(val, EPSILON)]
      [] OTHER -> [variance |-> variance, minimum |-> minimum]

\* set_parameter clamping the variance at 0.0 rather than at the epsilon
set_parameter_clamps_at_zero(index, val) ==
    CASE index = 0 -> [variance |-> fmax(val, Zero), minimum |-> minimum]
      [] index = 1 -> [variance |-> variance, minimum |-> val]
      [] OTHER -> [variance |-> variance, minimum |-> minimum]

\* the values set_parameter stores: [variance, minimum]
set_parameter(index, val) ==
    CASE index = 0 -> [variance |-> fmax(val, EPSILON), minimum |-> minimum]
      [] index = 1 -> [variance |-> variance, minimum |-> val]
      [] OTHER -> [variance |-> variance, minimum |-> minimum]

\* the String get_parameter_text builds from the stored values; both slots
\* format the variance cell
parameter_text(index, var, min) ==
    CASE index = 0 -> fmt_fixed1(fmul(var, MAX_VARIANCE))
      [] index = 1 -> fmt_display(fmul(var, MAX_VARIANCE))
      [] OTHER -> <<>>

\* the values the variance and the minimum cell can hold, given ParamVals
Variances == {Zero} \cup {fmax(val, EPSILON) : val \in ParamVals}
Minimums == {Zero} \cup ParamVals
\* parameter_text on every input the model reaches, evaluated once
parameter_text_table ==
    [index \in Indices, var \in Variances, min \in Minimums |->
        parameter_text(index, var, min)]

get_parameter_text(index) == parameter_text_table[index, variance, minimum]

\* the labels, as TLA+ strings
get_parameter_name(index) ==
    CASE index = 0 -> "Velocity variance"
      [] index = 1 -> "Minimum velocity"
      [] OTHER -> ""

(***************************************************************************)
(* The velocity randomizer: VaryVelocity::add_event                        *)
(***************************************************************************)

\* Normal::new(mean, std_dev): can the build's rand_distr return Err?  Every
\* release rejects NaN and accepts zero and the positive finite values;
\* releases up to 0.3 reject a negative std_dev, releases from 0.4 reject an
\* infinite one.
Normal_new(std_dev) ==
    IF IsNaN(std_dev) THEN {"Err"}
    ELSE IF IsInf(std_dev) \/ std_dev.m < 0 THEN {"Ok", "Err"}
    ELSE {"Ok"}

\* Normal::sample with the standard normal variate z: mean + std_dev * z
Normal_sample(mean, std_dev, z) == fadd(mean, fmul(std_dev, z))

\* let variance = self.params.variance.get() * MAX_VARIANCE
sigma_of(var) == fmul(var, MAX_VARIANCE)
\* let minimum = self.params.minimum.get() * MAX_MINIMUM
floor_of(min) == fmul(min, MAX_MINIMUM)

\* new_velocity without the .max(minimum) clamp
new_velocity_without_floor(e, var, min, z) ==
    as_u8(fmin(Normal_sample(from_u8(e.data[3]), sigma_of(var), z),
               VELOCITY_MAX))

\* the velocity byte add_event computes for e from the stored parameters and
\* the variate z
new_velocity(e, var, min, z) ==
    as_u8(fmin(fmax(Normal_sample(from_u8(e.data[3]), sigma_of(var), z),
                    floor_of(min)),
               VELOCITY_MAX))

\* new_event writing the new velocity over the note byte
new_event_velocity_in_note_byte(e, var, min, z) ==
    [e EXCEPT !.data = <<e.data[1], new_velocity(e, var, min, z), e.data[3]>>]

\* the event add_event pushes
new_event(e, var, min, z) ==
    [e EXCEPT !.data = <<e.data[1], e.data[2], new_velocity(e, var, min, z)>>]

\* new_event on every input the model draws, evaluated once
new_event_table ==
    [e \in {x.ev : x \in {y \in InEvents : y.type = "Midi"}},
     var \in Variances, min \in Minimums, z \in ZDraws |->
        new_event(e, var, min, z)]

\* add_event that pushes the event as it came before it unwraps the result
add_event_pushes_before_unwrap(st, e, z, res) ==
    IF res = "Err"
    THEN [queue |-> Append(st.queue, e), panicked |-> TRUE,
          params |-> st.params, trace |-> Append(st.trace, "panic")]
    ELSE [queue |-> Append(st.queue,
                           new_event_table[e, st.params.variance,
                                           st.params.minimum, z]),
          panicked |-> FALSE, params |-> st.params,
          trace |-> Append(st.trace, "add_event")]

\* one call of add_event: res is the outcome of Normal::new(..).unwrap()
add_event(st, e, z, res) ==
    IF res = "Err"
    THEN [queue |-> st.queue, panicked |-> TRUE, params |-> st.params,
          trace |-> Append(st.trace, "panic")]
    ELSE [queue |-> Append(st.queue,
                           new_event_table[e, st.params.variance,
                                           st.params.minimum, z]),
          panicked |-> FALSE, params |-> st.params,
          trace |-> Append(st.trace, "add_event")]

(***************************************************************************)
(* The cycle controller: impl Plugin for VaryVelocity                      *)
(***************************************************************************)

RECURSIVE process_events_loop(_, _, _, _)
\* the loop of process_events over the batch: every Event::Midi goes to
\* add_event, every other event is skipped; a panic ends the loop
process_events_loop(st, events, zs, res) ==
    IF events = <<>> \/ st.panicked THEN st
    ELSE IF Head(events).type = "Midi"
    THEN process_events_loop(add_event(st, Head(events).ev, Head(zs), res),
                             Tail(events), Tail(zs), res)
    ELSE process_events_loop(st, Tail(events), zs, res)

\* the Event::Midi events of a batch
MidiOnly(events) == SelectSeq(events, LAMBDA e : e.type = "Midi")

\* a copy that writes the first input channel to every output channel
audio_copy_first_channel_only(buffer) ==
    [c \in DOMAIN buffer.outputs |->
        [i \in DOMAIN buffer.outputs[c] |->
            IF i <= Len(buffer.inputs[1]) THEN buffer.inputs[1][i]
            ELSE buffer.outputs[c][i]]]

\* the copy loops of process: buffer.zip() pairs the channels and the inner
\* zip pairs the samples, so the shorter side decides how much is copied
audio_copy(buffer) ==
    [c \in DOMAIN buffer.outputs |->
        IF c <= Len(buffer.inputs)
        THEN [i \in DOMAIN buffer.outputs[c] |->
                IF i <= Len(buffer.inputs[c]) THEN buffer.inputs[c][i]
                ELSE buffer.outputs[c][i]]
        ELSE buffer.outputs[c]]

\* send_midi that leaves the vector as it is after the hand-off
send_midi_without_clear(st) ==
    [queue |-> st.queue, sent |-> Append(st.sent, st.queue),
     outputs |-> st.outputs, params |-> st.params,
     trace |-> st.trace \o <<"send_events", "clear">>]

\* send_midi that makes no hand-off when the queue is empty
send_midi_skips_empty_queue(st) ==
    IF st.queue = <<>>
    THEN [queue |-> <<>>, sent |-> st.sent, outputs |-> st.outputs,
          params |-> st.params, trace |-> Append(st.trace, "clear")]
    ELSE [queue |-> <<>>, sent |-> Append(st.sent, st.queue),
          outputs |-> st.outputs, params |-> st.params,
          trace |-> st.trace \o <<"send_events", "clear">>]

\* send_midi: hand immediate_events to the host, then clear the vector
send_midi(st) ==
    [queue |-> <<>>, sent |-> Append(st.sent, st.queue),
     outputs |-> st.outputs, params |-> st.params,
     trace |-> st.trace \o <<"send_events", "clear">>]

\* process that puts the parameters back to their defaults before the copy
process_resets_params(st, buffer) ==
    send_midi([st EXCEPT !.outputs = audio_copy(buffer),
                         !.params = [variance |-> Zero, minimum |-> Zero],
                         !.trace = Append(st.trace, "copy")])

\* process that copies the audio and never calls send_midi
process_without_send_midi(st, buffer) ==
    [st EXCEPT !.outputs = audio_copy(buffer),
               !.trace = Append(st.trace, "copy")]

\* process: the audio copy, then send_midi
process(st, buffer) ==
    send_midi([st EXCEPT !.outputs = audio_copy(buffer),
                         !.trace = Append(st.trace, "copy")])

\* get_info declares inputs: 2, outputs: 2
Channels == 1..2
\* the buffers the host passes to process: as many frames in as out, the
\* output side not yet written
Buffers ==
    {[inputs |-> [c \in Channels |-> [i \in 1..n |-> InSample(c, i)]],
      outputs |-> [c \in Channels |-> [i \in 1..n |-> Stale]]] :
        n \in {MaxFrames}}

(***************************************************************************)
(* Actions: the calls the host makes                                       *)
(***************************************************************************)

\* the shared parameter object the audio callbacks reach through self.params
Params == [variance |-> variance, minimum |-> minimum]

\* Plugin::new: VaryVelocity::default with VaryVelocityParameters::default
Init ==
    /\ variance = Zero
    /\ minimum = Zero
    /\ sample_rate = Zero
    /\ immediate_events = <<>>
    /\ crashed = FALSE
    /\ host_events = <<>>
    /\ outputs = <<>>
    /\ inbound = <<>>
    /\ flushed = <<>>
    /\ var_written = Unwritten
    /\ trace = <<>>
    /\ pc = "idle"
    /\ cur = <<>>
    /\ got_variance = Zero
    /\ got_minimum = Zero
    /\ held = {}
    /\ ui_writes = 0

\* a call that hands the host nothing and leaves the event queue alone
Quiet ==
    /\ trace' = <<>>
    /\ host_events' = <<>>
    /\ outputs' = <<>>
    /\ flushed' = <<>>
    /\ UNCHANGED cvars

SetParameter(index, val) ==
    /\ ~crashed
    /\ variance' = set_parameter(index, val).variance
    /\ minimum' = set_parameter(index, val).minimum
    /\ var_written' = IF index = 0 THEN val ELSE var_written
    /\ Quiet
    /\ UNCHANGED <<sample_rate, immediate_events, crashed, inbound>>

\* the three reads return get_parameter(index), get_parameter_text(index) and
\* get_parameter_name(index); they write nothing
GetParameter(index) ==
    /\ ~crashed
    /\ Quiet
    /\ UNCHANGED <<variance, minimum, sample_rate, immediate_events, crashed,
                   inbound, var_written>>

GetParameterText(index) ==
    /\ ~crashed
    /\ Quiet
    /\ UNCHANGED <<variance, minimum, sample_rate, immediate_events, crashed,
                   inbound, var_written>>

GetParameterName(index) ==
    /\ ~crashed
    /\ Quiet
    /\ UNCHANGED <<variance, minimum, sample_rate, immediate_events, crashed,
                   inbound, var_written>>

SetSampleRate(rate) ==
    /\ ~crashed
    /\ sample_rate' = rate
    /\ Quiet
    /\ UNCHANGED <<variance, minimum, immediate_events, crashed, inbound,
                   var_written>>

ProcessEvents(events, zs, res) ==
    /\ ~crashed
    /\ Len(inbound) + Len(events) <= MaxPending
    /\ \E st \in {process_events_loop(
                      [queue |-> immediate_events, panicked |-> FALSE,
                       params |-> Params, trace |-> <<>>],
                      events, zs, res)} :
          /\ immediate_events' = st.queue
          /\ crashed' = st.panicked
          /\ variance' = st.params.variance
          /\ minimum' = st.params.minimum
          /\ trace' = st.trace
    /\ inbound' = inbound \o events
    /\ host_events' = <<>>
    /\ outputs' = <<>>
    /\ flushed' = <<>>
    /\ UNCHANGED <<sample_rate, var_written, cvars>>

Process(buffer) ==
    /\ ~crashed
    /\ \E st \in {process([queue |-> immediate_events, sent |-> <<>>,
                           outputs |-> buffer.outputs, params |-> Params,
                           trace |-> <<>>],
                          buffer)} :
          /\ immediate_events' = st.queue
          /\ variance' = st.params.variance
          /\ minimum' = st.params.minimum
          /\ host_events' = st.sent
          /\ outputs' = st.outputs
          /\ trace' = st.trace
    /\ inbound' = <<>>
    /\ flushed' = inbound
    /\ UNCHANGED <<sample_rate, crashed, var_written, cvars>>

Next ==
    \/ \E index \in Indices, val \in ParamVals : SetParameter(index, val)
    \/ \E index \in Indices : GetParameter(index)
    \/ \E index \in Indices : GetParameterText(index)
    \/ \E index \in Indices : GetParameterName(index)
    \/ \E rate \in Rates : SetSampleRate(rate)
    \/ \E res \in Normal_new(sigma_of(variance)) :
         \E events \in SeqsUpTo(InEvents,
                                MinI(MaxBatch, MaxPending - Len(inbound))) :
            \E zs \in [1..Len(MidiOnly(events)) -> ZDraws] :
               ProcessEvents(events, zs, res)
    \/ \E buffer \in Buffers : Process(buffer)

Spec == Init /\ [][Next]_vars

\* the host runs the audio thread without end: as long as a call of process
\* would change anything, the host makes one
LiveSpec == Spec /\ WF_vars(\E buffer \in Buffers : Process(buffer))

(***************************************************************************)
(* The interleaved specification: add_event taken one load at a time, with *)
(* the host's UI thread calling set_parameter between any two of its steps *)
(***************************************************************************)

\* most set_parameter calls of the UI thread during one add_event
MaxUiWrites == 2

\* process_events with the one event e: add_event is entered, line 57
AddEventEnter(e) ==
    /\ ~crashed
    /\ pc = "idle"
    /\ Len(inbound) < MaxPending
    /\ pc' = "load_variance"
    /\ cur' = <<e>>
    /\ held' = {Params}
    /\ ui_writes' = 0
    /\ inbound' = Append(inbound, Midi(e))
    /\ trace' = <<>>
    /\ host_events' = <<>>
    /\ outputs' = <<>>
    /\ flushed' = <<>>
    /\ UNCHANGED <<variance, minimum, sample_rate, immediate_events, crashed,
                   var_written, got_variance, got_minimum>>

\* line 58: self.params.variance.get()
AddEventLoadVariance ==
    /\ pc = "load_variance"
    /\ got_variance' = variance
    /\ pc' = "load_minimum"
    /\ UNCHANGED <<variance, minimum, sample_rate, immediate_events, crashed,
                   host_events, outputs, inbound, flushed, var_written, trace,
                   cur, got_minimum, held, ui_writes>>

\* line 59: self.params.minimum.get()
AddEventLoadMinimum ==
    /\ pc = "load_minimum"
    /\ got_minimum' = minimum
    /\ pc' = "push"
    /\ UNCHANGED <<variance, minimum, sample_rate, immediate_events, crashed,
                   host_events, outputs, inbound, flushed, var_written, trace,
                   cur, got_variance, held, ui_writes>>

\* lines 61-67: the distribution, the sample and the push, all computed from
\* the two values loaded before
AddEventPush(z, res) ==
    /\ pc = "push"
    /\ \E st \in {add_event([queue |-> immediate_events, panicked |-> FALSE,
                             params |-> [variance |-> got_variance,
                                         minimum |-> got_minimum],
                             trace |-> <<>>], cur[1], z, res)} :
          /\ immediate_events' = st.queue
          /\ crashed' = st.panicked
          /\ trace' = st.trace
    /\ pc' = "idle"
    /\ UNCHANGED <<variance, minimum, sample_rate, host_events, outputs,
                   inbound, flushed, var_written, cur, got_variance,
                   got_minimum, held, ui_writes>>

\* the UI thread's set_parameter, at any moment
UiSetParameter(index, val) ==
    /\ ~crashed
    /\ pc # "idle" => ui_writes < MaxUiWrites
    /\ variance' = set_parameter(index, val).variance
    /\ minimum' = set_parameter(index, val).minimum
    /\ var_written' = IF index = 0 THEN val ELSE var_written
    /\ held' = IF pc = "idle" THEN held ELSE held \cup {set_parameter(index, val)}
    /\ ui_writes' = IF pc = "idle" THEN ui_writes ELSE ui_writes + 1
    /\ UNCHANGED <<sample_rate, immediate_events, crashed, host_events,
                   outputs, inbound, flushed, trace, pc, cur, got_variance,
                   got_minimum>>

\* process, called by the audio thread between two process_events
AudioProcess(buffer) ==
    /\ pc = "idle"
    /\ Process(buffer)

ConcNext ==
    \/ \E e \in {x.ev : x \in {y \in InEvents : y.type = "Midi"}} :
          AddEventEnter(e)
    \/ AddEventLoadVariance
    \/ AddEventLoadMinimum
    \/ \E res \in Normal_new(sigma_of(got_variance)) : \E z \in ZDraws :
          AddEventPush(z, res)
    \/ \E index \in {0, 1}, val \in ParamVals : UiSetParameter(index, val)
    \/ \E buffer \in Buffers : AudioProcess(buffer)

ConcSpec == Init /\ [][ConcNext]_vars

(***************************************************************************)
(* What the latest call did                                                *)
(***************************************************************************)

\* the latest call was process
IsProcess == trace # <<>> /\ trace[1] = "copy"
\* the number of events the latest call pushed through add_event
FreshCount == Cardinality({i \in DOMAIN trace : trace[i] = "add_event"})
\* their places in immediate_events; the stored parameters have not changed
\* since they were pushed
FreshPlaces == (Len(immediate_events) - FreshCount + 1)..Len(immediate_events)
\* add_event ran in the latest call
AddEventRan == \E i \in DOMAIN trace : trace[i] \in {"add_event", "panic"}
\* the Event::Midi events received since the last flush
MidiInbound == MidiOnly(inbound)
\* e is the inbound MidiEvent src but for its velocity byte
SameButVelocity(e, src) == e = [src EXCEPT !.data[3] = e.data[3]]

(***************************************************************************)
(* C1: after a cycle with K inbound note events, process hands the host    *)
(* exactly K events in one batch, the i-th being the i-th inbound note     *)
(* event with a new velocity, and the queue is empty afterwards.           *)
(* Fails: a control change in the cycle is handed on as well (see C2).     *)
(***************************************************************************)
C1_FlushDeliversTheNotes ==
    IsProcess =>
        /\ Len(host_events) = 1
        /\ immediate_events = <<>>
        /\ LET notes == SelectSeq(flushed, IsNote)
               batch == host_events[1]
           IN  /\ Len(batch) = Len(notes)
               /\ \A i \in 1..Len(batch) : SameButVelocity(batch[i], notes[i].ev)

(***************************************************************************)
(* C2: an inbound event that is not a note event (control change, SysEx)   *)
(* puts nothing in the queue and nothing derived from it reaches the host. *)
(* Fails: process_events passes every Event::Midi to add_event.            *)
(***************************************************************************)
C2_NonNotesAreDropped ==
    /\ Len(immediate_events) <= Len(SelectSeq(inbound, IsNote))
    /\ \A i \in 1..Len(immediate_events) :
          IsNoteStatus(immediate_events[i].data[1])
    /\ \A b \in 1..Len(host_events) : \A i \in 1..Len(host_events[b]) :
          IsNoteStatus(host_events[b][i].data[1])

(***************************************************************************)
(* C3: the event add_event appends has the status byte, the note byte and  *)
(* the timing and metadata fields of the inbound event; only the velocity  *)
(* byte may differ.                                                        *)
(***************************************************************************)
C3_OnlyVelocityChanges ==
    /\ Len(immediate_events) <= Len(MidiInbound)
    /\ \A i \in 1..Len(immediate_events) :
          SameButVelocity(immediate_events[i], MidiInbound[i].ev)

\* add_event has changed the velocity of an event in the queue
C3_Witness ==
    \E i \in 1..Len(immediate_events) :
        /\ i <= Len(MidiInbound)
        /\ immediate_events[i].data[3] # MidiInbound[i].ev.data[3]
        /\ immediate_events[i].delta_frames = 1

(***************************************************************************)
(* C4: with the stored variance in (0,1], the stored minimum in [0,1] and  *)
(* an inbound velocity in [0,127], the velocity byte add_event emits lies  *)
(* in [floor, 127], floor = minimum * 127 being the scaled minimum.        *)
(* Fails as stated when floor is no integer: the clamped sample is         *)
(* truncated, so the byte lies in [trunc(floor), 127].                     *)
(***************************************************************************)
C4_Case ==
    /\ flt(Zero, variance) /\ fle(variance, One)
    /\ fle(Zero, minimum) /\ fle(minimum, One)

C4_VelocityAtLeastScaledMinimum ==
    C4_Case =>
        \A i \in FreshPlaces :
            /\ fle(floor_of(minimum), from_u8(immediate_events[i].data[3]))
            /\ immediate_events[i].data[3] <= 127

\* C4 as amended: the velocity byte lies in [trunc(minimum * 127), 127]
C4_VelocityAtLeastTruncatedMinimum ==
    C4_Case =>
        \A i \in FreshPlaces :
            /\ MidiInbound[i].ev.data[3] \in 0..127
            /\ as_u8(floor_of(minimum)) <= immediate_events[i].data[3]
            /\ immediate_events[i].data[3] <= 127

\* add_event has just raised a low sample to the scaled minimum 63.5 and
\* truncated it to 63
C4_Witness ==
    /\ C4_Case
    /\ minimum = Half
    /\ \E i \in FreshPlaces : immediate_events[i].data[3] = 63

(***************************************************************************)
(* C5: from the freshly constructed plugin on and after any set_parameter  *)
(* calls, the stored variance is strictly greater than 0.                  *)
(* Fails: VaryVelocityParameters::default stores 0.0.                      *)
(***************************************************************************)
C5_VarianceIsPositive == flt(Zero, variance)

(***************************************************************************)
(* C6: whenever add_event runs, the standard deviation variance * 25 it    *)
(* computes is strictly positive and finite, and add_event does not panic. *)
(* Fails: it is 0 before the first set_parameter(0, _) (see C5) and        *)
(* infinite after set_parameter(0, inf).                                   *)
(***************************************************************************)
C6_SigmaIsPositiveAndFinite ==
    AddEventRan =>
        /\ IsFinite(sigma_of(variance))
        /\ flt(Zero, sigma_of(variance))
        /\ ~crashed

(***************************************************************************)
(* C7: after set_parameter(0, v) with v <= 0 and no later write to slot 0, *)
(* get_parameter(0) returns the epsilon 1e-10, which is strictly positive; *)
(* after set_parameter(0, v) with v > epsilon it returns v.                *)
(***************************************************************************)
C7_ZeroReadsBackAsEpsilon ==
    var_written # Unwritten =>
        /\ fle(var_written, Zero) =>
              /\ get_parameter(0) = EPSILON
              /\ get_parameter(0) # Zero
              /\ flt(Zero, get_parameter(0))
        /\ flt(EPSILON, var_written) => get_parameter(0) = var_written

\* set_parameter(0, 0.0) was the latest write to slot 0
C7_Witness == var_written = Zero /\ get_parameter(0) = EPSILON

(***************************************************************************)
(* C8: get_parameter_text(index) renders the scaled value of the control   *)
(* at that index; for index 1 the text is determined by the stored minimum *)
(* and changes when, and only when, the minimum changes.                   *)
(* Fails: index 1 formats the variance cell.                               *)
(***************************************************************************)
C8_MinimumTextFollowsMinimum ==
    [][(get_parameter_text(1)' # get_parameter_text(1)) <=> (minimum' # minimum)]_vars

(***************************************************************************)
(* C9: for an index other than 0 and 1, get_parameter returns 0.0,         *)
(* set_parameter leaves both slots as they are, and get_parameter_name and *)
(* get_parameter_text return the empty string.                             *)
(***************************************************************************)
C9_UnknownIndexIsInert ==
    \A index \in Indices \ {0, 1} :
        /\ get_parameter(index) = Zero
        /\ \A val \in ParamVals :
              set_parameter(index, val) =
                  [variance |-> variance, minimum |-> minimum]
        /\ get_parameter_name(index) = ""
        /\ get_parameter_text(index) = <<>>

\* both slots hold something other than the 0.0 an unknown index reads, and
\* other than every value a set_parameter on an unknown index could pass
C9_Witness ==
    /\ variance = EPSILON
    /\ minimum = Half
    /\ get_parameter(5) # get_parameter(0)
    /\ get_parameter(-1) # get_parameter(1)

(***************************************************************************)
(* C10: each call of process hands the pending queue to the host exactly   *)
(* once, after its audio copy, also when the queue is empty, and clears    *)
(* the queue after that; nothing is handed to the host outside process.    *)
(***************************************************************************)
C10_OneHandOffPerProcess ==
    /\ [](/\ IsProcess =>
                /\ trace = <<"copy", "send_events", "clear">>
                /\ Len(host_events) = 1
                /\ immediate_events = <<>>
          /\ ~IsProcess =>
                /\ host_events = <<>>
                /\ \A i \in DOMAIN trace : trace[i] # "send_events")
    /\ [][host_events' # <<>> => host_events' = <<immediate_events>>]_vars

\* process has handed the host an empty batch
C10_Witness == IsProcess /\ host_events = << <<>> >>

(***************************************************************************)
(* C11: for a buffer whose input and output side have the same shape,      *)
(* after process every output sample equals the input sample of the same   *)
(* channel and frame, whatever the stored parameters and the events of the *)
(* cycle.                                                                  *)
(***************************************************************************)
C11_AudioPassesThrough ==
    IsProcess =>
        /\ DOMAIN outputs = Channels
        /\ \A c \in DOMAIN outputs :
              /\ Len(outputs[c]) = MaxFrames
              /\ \A i \in DOMAIN outputs[c] : outputs[c][i] = InSample(c, i)

\* process has copied a full buffer in a cycle that also flushed events, with
\* both parameters away from their defaults
C11_Witness ==
    /\ IsProcess
    /\ variance = Half /\ minimum = Half
    /\ MidiOnly(flushed) # <<>>
    /\ Len(outputs[2]) = MaxFrames
    /\ outputs[2][MaxFrames] = InSample(2, MaxFrames)
    /\ outputs[1][1] # outputs[2][1]

(***************************************************************************)
(* C12: after any set_parameter calls with arbitrary float values,         *)
(* get_parameter(0) and get_parameter(1) each return a value in the closed *)
(* range [0.0, 1.0].                                                       *)
(* Fails: set_parameter stores a negative minimum as it is, and bounds     *)
(* neither slot from above.                                                *)
(***************************************************************************)
C12_ParametersStayNormalized ==
    \A index \in {0, 1} :
        /\ fle(Zero, get_parameter(index))
        /\ fle(get_parameter(index), One)

(***************************************************************************)
(* C13: the parameter store is written only by set_parameter: a step of    *)
(* process_events (add_event), process (send_midi) or set_sample_rate      *)
(* leaves the stored variance and minimum as they were.                    *)
(***************************************************************************)
C13_OnlySetParameterWrites ==
    [][<<variance, minimum>>' # <<variance, minimum>> =>
          /\ \E index \in {0, 1} : \E val \in ParamVals :
                SetParameter(index, val)
          /\ trace' = <<>>
          /\ UNCHANGED <<sample_rate, immediate_events>>]_vars

\* every audio callback has run on a store that holds other values than the
\* defaults, and the store still holds them
C13_Witness ==
    /\ IsProcess
    /\ MidiOnly(flushed) # <<>>
    /\ sample_rate # Zero
    /\ variance = Half /\ minimum = Half

(***************************************************************************)
(* C14: when the construction of the distribution in add_event fails, the  *)
(* failure is fatal: nothing is appended for that inbound event, the       *)
(* instance is gone so no flush or any other call follows, and the host    *)
(* is handed nothing computed from the rejected sigma.                     *)
(***************************************************************************)
C14_ConstructionFailureIsFatal ==
    /\ []((\E i \in DOMAIN trace : trace[i] = "panic") =>
             /\ crashed
             /\ "Err" \in Normal_new(sigma_of(variance))
             /\ trace = <<"panic">>
             /\ Len(immediate_events) < Len(MidiInbound)
             /\ host_events = <<>>)
    /\ [](crashed => trace = <<"panic">>)
    /\ [][~crashed]_vars

\* Normal::new has rejected an infinite sigma while an event of the same cycle
\* was waiting in the queue
C14_Witness ==
    /\ crashed
    /\ trace = <<"panic">>
    /\ IsInf(sigma_of(variance))
    /\ Len(immediate_events) = 1
    /\ Len(MidiInbound) = 2

(***************************************************************************)
(* C15: with the UI thread calling set_parameter while add_event runs, the *)
(* pair (variance, minimum) add_event computes with is one the store held  *)
(* at some moment during that add_event.                                   *)
(* Fails: the two cells are loaded one after the other, and two writes in  *)
(* between give a pair the store never held.                               *)
(***************************************************************************)
C15_SnapshotIsConsistent ==
    (pc = "idle" /\ cur # <<>>) =>
        [variance |-> got_variance, minimum |-> got_minimum] \in held

(***************************************************************************)
(* C16: in every reachable state, the freshly constructed one included,    *)
(* and for every index, writing back what get_parameter returned leaves    *)
(* the stored values, and so the text of that index, exactly as they were. *)
(* Fails on the fresh store: set_parameter(0, 0.0) stores the epsilon in   *)
(* place of the default 0.0 (see C5).                                      *)
(***************************************************************************)
C16_WriteBackKeepsTheStore ==
    \A index \in Indices :
        LET after == set_parameter(index, get_parameter(index))
        IN  /\ after = Params
            /\ parameter_text_table[index, after.variance, after.minimum]
                  = get_parameter_text(index)

(***************************************************************************)
(* C17: set_parameter(i, v) changes at most slot i: with index 0 the       *)
(* stored minimum stays, with index 1 v is stored as it is and the stored  *)
(* variance stays, and a step that writes the store leaves the event queue *)
(* and the sample rate.                                                    *)
(***************************************************************************)
C17_SetParameterWritesOneSlot ==
    /\ [](\A val \in ParamVals :
             /\ set_parameter(0, val).minimum = minimum
             /\ set_parameter(1, val) = [variance |-> variance, minimum |-> val])
    /\ [][<<variance, minimum>>' # <<variance, minimum>> =>
             /\ variance' = variance \/ minimum' = minimum
             /\ UNCHANGED <<immediate_events, sample_rate>>]_vars

\* set_parameter(1, -1.0) has stored -1.0 next to a variance set before, with
\* events pending and a sample rate announced
C17_Witness ==
    /\ minimum = NegOne
    /\ variance = Half
    /\ immediate_events # <<>>
    /\ sample_rate # Zero
    /\ trace = <<>>

(***************************************************************************)
(* C18: however the host interleaves process_events and process, the queue *)
(* holds exactly the events add_event appended since the previous flush,   *)
(* and a flush hands the host exactly those, each once, and leaves none    *)
(* behind to be handed over again by a later flush.                        *)
(***************************************************************************)
C18_EveryEventInOneFlush ==
    /\ Len(immediate_events) <= Len(MidiInbound)
    /\ ~crashed => Len(immediate_events) = Len(MidiInbound)
    /\ IsProcess =>
          /\ inbound = <<>>
          /\ immediate_events = <<>>
          /\ Len(host_events) = 1
          /\ Len(host_events[1]) = Len(MidiOnly(flushed))
          /\ \A i \in 1..Len(host_events[1]) :
                SameButVelocity(host_events[1][i], MidiOnly(flushed)[i].ev)
    /\ ~IsProcess => host_events = <<>>

\* a flush has handed over two different events of one cycle, and nothing is
\* left in the queue
C18_Witness ==
    /\ IsProcess
    /\ Len(host_events[1]) = MaxPending
    /\ host_events[1][1].data[1] # host_events[1][2].data[1]
    /\ immediate_events = <<>>

(***************************************************************************)
(* C19: when the host keeps calling process and add_event does not fail,   *)
(* events waiting in the queue are eventually handed to the host and the   *)
(* queue is empty again; the call of process that follows hands over all   *)
(* of them, none is left for a later call.                                 *)
(***************************************************************************)
C19_PendingEventsAreDelivered ==
    /\ (immediate_events # <<>> /\ ~crashed) ~>
          (crashed \/ (/\ IsProcess
                       /\ immediate_events = <<>>
                       /\ host_events # <<>>
                       /\ host_events[1] # <<>>))
    /\ [][(immediate_events # <<>> /\ IsProcess') =>
             (host_events' = <<immediate_events>> /\ immediate_events' = <<>>)]_vars

\* one event was waiting and process has handed it to the host
C19_Witness ==
    /\ IsProcess
    /\ ~crashed
    /\ Len(host_events[1]) = 1
    /\ Len(MidiOnly(flushed)) = 1
    /\ immediate_events = <<>>

====
